---- MODULE Spec2Model ----
(***************************************************************************)
(* battista: the statistics engine of src/main.rs.                         *)
(*                                                                         *)
(* The model follows one call of get_stats(transactions): the single pass  *)
(* that folds every transaction into its yearly, monthly and rolling       *)
(* accumulators (TempStats::update), the three finalisation loops          *)
(* (TempStats::calc_averages) and the conversion into the sorted snapshot  *)
(* (TempStatsCollection::into_stats_collection, TempStats::into_stats).    *)
(*                                                                         *)
(* Dates (chrono::NaiveDate) are numbers of days since 1970-01-01 of the   *)
(* proleptic Gregorian calendar; from_ymd_opt, year and month0 convert     *)
(* between that number and the civil date.  f64 values are exact rationals *)
(* <<"fin", num, den>> plus the IEEE specials <<"inf", sign, 0>> and       *)
(* <<"nan", 0, 0>>; rounding is not modelled.                              *)
(***************************************************************************)
EXTENDS Integers, Sequences, FiniteSets, TLC

VARIABLES
    transactions,   \* the argument of get_stats: Vec<Transaction>
    today,          \* Local::now().date_naive(), read once (line 413)
    pc,             \* position inside get_stats
    i,              \* index of the next transaction of the first loop
    start,          \* earliest date seen so far (line 415, 419)
    tsc,            \* the TempStatsCollection being built
    stats,          \* the StatsCollection returned, <<>> before the return
    calls,          \* history: the calc_averages calls made so far
    folded,         \* history: the update calls made so far
    ret             \* the record of a call around get_stats: what it was given
                    \* and what it returned; <<>> when there is none

vars == <<transactions, today, pc, i, start, tsc, stats, calls, folded, ret>>

----------------------------------------------------------------------------
(* Bounds of the model *)

MaxTx == 2          \* longest transaction list
MaxSeed == 5        \* hasher seeds 0..MaxSeed: every order of up to 3 keys
MaxCalendarYears == 2   \* years from 2023 on whose days the date functions get
MaxLines == 2       \* most lines of a file after its header

----------------------------------------------------------------------------
(* chrono::NaiveDate *)

\* NaiveDate::from_ymd_opt(y, m, d).unwrap(): the day number of a civil date
from_ymd_opt(y, m, d) ==
    LET yy  == IF m <= 2 THEN y - 1 ELSE y
        era == yy \div 400
        yoe == yy - era * 400
        mp  == IF m > 2 THEN m - 3 ELSE m + 9
        doy == (153 * mp + 2) \div 5 + d - 1
        doe == yoe * 365 + yoe \div 4 - yoe \div 100 + doy
    IN  era * 146097 + doe - 719468

\* the civil date <<year, month, day>> of a day number
civil(date) ==
    LET z   == date + 719468
        era == z \div 146097
        doe == z - era * 146097
        yoe == (doe - doe \div 1460 + doe \div 36524 - doe \div 146096) \div 365
        doy == doe - (365 * yoe + yoe \div 4 - yoe \div 100)
        mp  == (5 * doy + 2) \div 153
        d   == doy - (153 * mp + 2) \div 5 + 1
        m   == IF mp < 10 THEN mp + 3 ELSE mp - 9
        y   == yoe + era * 400 + (IF m <= 2 THEN 1 ELSE 0)
    IN  <<y, m, d>>

\* Datelike::year_ce: (true, year) in the common era, (false, 1 - year) before
year_ce(date) ==
    LET y == civil(date)[1]
    IN  IF y >= 1 THEN <<TRUE, y>> ELSE <<FALSE, 1 - y>>

\* Datelike::month0: the month counted from 0
month0(date) == civil(date)[2] - 1

\* the era flag of year_ce left out
year_as_i32_unsigned(yce) == yce[2]

year_as_i32(yce) ==
    IF yce[1] THEN yce[2] ELSE (-1) * yce[2]

days_in_month(d) ==
    LET year  == year_as_i32(year_ce(d))
        month == month0(d) + 1
    IN  from_ymd_opt(year + (IF month = 12 THEN 1 ELSE 0), (month % 12) + 1, 1)
          - from_ymd_opt(year, month, 1)

days_in_year(d) ==
    LET year  == year_as_i32(year_ce(d))
        month == month0(d) + 1
    IN  from_ymd_opt(year + 1, month, 1) - from_ymd_opt(year, month, 1)

MinOf(a, b) == IF a <= b THEN a ELSE b
MaxOf(a, b) == IF a >= b THEN a ELSE b

----------------------------------------------------------------------------
(* f64 *)

Abs(n) == IF n < 0 THEN -n ELSE n

RECURSIVE Gcd(_, _)
Gcd(a, b) == IF b = 0 THEN a ELSE Gcd(b, a % b)

\* the f64 nearest to the rational n/d, d # 0 (kept exact)
Fin(n, d) ==
    LET g == Gcd(Abs(n), Abs(d))
        s == IF d < 0 THEN -1 ELSE 1
    IN  IF n = 0 THEN <<"fin", 0, 1>> ELSE <<"fin", (s * n) \div g, (s * d) \div g>>

F64Zero == <<"fin", 0, 1>>

\* x / (n as f64) for a finite x and an integer n, as IEEE 754 divides
FDiv(x, n) ==
    IF n # 0 THEN Fin(x[2], x[3] * n)
    ELSE IF x[2] = 0 THEN <<"nan", 0, 0>>
    ELSE <<"inf", IF x[2] > 0 THEN 1 ELSE -1, 0>>

----------------------------------------------------------------------------
(* Category *)

\* a Category is <<variant, label>>; the label is "" except for Miscellaneous
Cat(v) == <<v, "">>
Miscellaneous(a) == <<"Miscellaneous", a>>

\* Category::iter(): every variant in declaration order, Miscellaneous with
\* its default (empty) label
CategoryIter ==
    << Cat("Books"), Cat("Charity"), Cat("Clothing"), Cat("Grocery"),
       Cat("Education"), Cat("Entrateinment"), Cat("Fine"), Cat("Gift"),
       Cat("Healthcare"), Cat("Hobby"), Cat("Insurance"), Cat("Rent"),
       Cat("Restaurants"), Cat("Savings"), Cat("Shopping"), Cat("Sport"),
       Cat("Taxes"), Cat("Transportation"), Cat("Travel"), Cat("Utilities"),
       Miscellaneous(""), Cat("Unknown") >>

\* impl fmt::Display for Category
CategoryDisplay(c) ==
    IF c[1] = "Miscellaneous"
    THEN IF c[2] = "" THEN "Miscellaneous" ELSE "Miscellaneous (" \o c[2] \o ")"
    ELSE c[1]

\* impl From<&str> for Category: the first variant that displays as s
CategoryFrom(s) ==
    LET hits == {k \in 1..Len(CategoryIter) : CategoryDisplay(CategoryIter[k]) = s}
    IN  IF hits # {}
        THEN CategoryIter[CHOOSE k \in hits : \A j \in hits : k <= j]
        ELSE Miscellaneous(s)

----------------------------------------------------------------------------
(* Transaction *)

Transaction(value, date, category, end_date, payment_method, note) ==
    [value |-> value, date |-> date, category |-> category,
     end_date |-> end_date, payment_method |-> payment_method, note |-> note]

----------------------------------------------------------------------------
(* TempStats *)

EmptyMap == <<>>

\* TempStats::default()
TempStatsDefault ==
    [per_day |-> F64Zero, total |-> 0, by_category |-> EmptyMap,
     by_payment_method |-> EmptyMap, by_note |-> EmptyMap,
     average_transaction |-> F64Zero, transaction_count |-> 0]

\* the value added to every entry of the map
AddTo_all(m, k, value) ==
    LET m0 == IF k \in DOMAIN m THEN m ELSE (k :> 0) @@ m
    IN  [j \in DOMAIN m0 |-> m0[j] + value]

\* if !m.contains_key(k) { m.insert(k, 0) }; *m.get_mut(k).unwrap() += value
AddTo(m, k, value) ==
    LET m0 == IF k \in DOMAIN m THEN m ELSE (k :> 0) @@ m
    IN  [m0 EXCEPT ![k] = @ + value]

\* update that stores the value under the category instead of adding it
update_overwrite(self, e) ==
    LET value == e.value
    IN  [self EXCEPT
            !.total = @ + value,
            !.by_category = (e.category :> value) @@ @,
            !.by_payment_method = AddTo(@, e.payment_method, value),
            !.by_note = AddTo(@, e.note, value),
            !.transaction_count = @ + 1]

update(self, e) ==
    LET value == e.value
    IN  [self EXCEPT
            !.total = @ + value,
            !.by_category = AddTo(@, e.category, value),
            !.by_payment_method = AddTo(@, e.payment_method, value),
            !.by_note = AddTo(@, e.note, value),
            !.transaction_count = @ + 1]

\* TempStats::get_total: total as f64 / 100.0
get_total(self) == Fin(self.total, 100)

calc_averages(self, days) ==
    [self EXCEPT
        !.per_day = FDiv(get_total(self), days),
        !.average_transaction = FDiv(get_total(self), self.transaction_count)]

----------------------------------------------------------------------------
(* Vec, HashMap iteration and sort_by *)

\* some enumeration of a finite set, fixed for the set
RECURSIVE SetToSeq(_)
SetToSeq(S) ==
    IF S = {} THEN <<>>
    ELSE LET x == CHOOSE x \in S : TRUE IN <<x>> \o SetToSeq(S \ {x})

RECURSIVE Factorial(_)
Factorial(n) == IF n <= 1 THEN 1 ELSE n * Factorial(n - 1)

RemoveAt(s, j) == [k \in 1..(Len(s) - 1) |-> IF k < j THEN s[k] ELSE s[k + 1]]

\* the permutation number k (mod Len(s)!) of the sequence s
RECURSIVE KthPerm(_, _)
KthPerm(s, k) ==
    IF Len(s) = 0 THEN <<>>
    ELSE LET f == Factorial(Len(s) - 1)
             j == ((k \div f) % Len(s)) + 1
         IN  <<s[j]>> \o KthPerm(RemoveAt(s, j), k % f)

\* HashMap::into_iter().collect::<Vec<_>>(): the (key, value) pairs of m in
\* the order the hasher's seed yields; any order of the keys is possible
into_iter(m, seed) ==
    LET keys == KthPerm(SetToSeq(DOMAIN m), seed)
    IN  [k \in 1..Len(keys) |-> <<keys[k], m[keys[k]]>>]

\* i64::partial_cmp(..).unwrap() and Ord::cmp
cmp(a, b) == IF a < b THEN "Less" ELSE IF a = b THEN "Equal" ELSE "Greater"

\* Ordering::reverse
reverse(o) == IF o = "Less" THEN "Greater" ELSE IF o = "Greater" THEN "Less" ELSE o

\* the comparator without the reverse
by_value_forward(x, y) == cmp(x[2], y[2])

\* |x, y| x.1.partial_cmp(&y.1).unwrap().reverse()
by_value_reversed(x, y) == reverse(cmp(x[2], y[2]))

\* |x, y| x.0.cmp(&y.0)
by_year(x, y) == cmp(x[1], y[1])

\* the months compared without their year
by_month_only(x, y) == cmp(x[1][2], y[1][2])

\* |x, y| (x.0.0 * 12 + x.0.1 as i32).cmp(&(y.0.0 * 12 + y.0.1 as i32))
by_month(x, y) == cmp(x[1][1] * 12 + x[1][2], y[1][1] * 12 + y[1][2])

\* |a, b| a.date.cmp(&b.date)
by_date(a, b) == cmp(a.date, b.date)

\* the call of the closure f of a sort_by on the elements x and y
compare(f, x, y) ==
    CASE f = "by_value_reversed" -> by_value_reversed(x, y)
      [] f = "by_date" -> by_date(x, y)
      [] f = "by_year" -> by_year(x, y)
      [] f = "by_month" -> by_month(x, y)

\* insert x into the sorted s behind every element that does not compare
\* greater than x
InsertSorted(s, x, f) ==
    LET later == {j \in 1..Len(s) : compare(f, x, s[j]) = "Less"}
        pos   == IF later = {} THEN Len(s) + 1
                 ELSE CHOOSE j \in later : \A l \in later : j <= l
    IN  [k \in 1..(Len(s) + 1) |->
            IF k < pos THEN s[k] ELSE IF k = pos THEN x ELSE s[k - 1]]

\* slice::sort_by: a stable sort by the comparator f
sort_by(v, f) ==
    LET ins[k \in 0..Len(v)] ==
            IF k = 0 THEN <<>> ELSE InsertSorted(ins[k - 1], v[k], f)
    IN  ins[Len(v)]

----------------------------------------------------------------------------
(* TempStats::into_stats and TempStatsCollection::into_stats_collection *)

into_stats(self, seed) ==
    [per_day |-> self.per_day,
     total |-> self.total,
     by_category |-> sort_by(into_iter(self.by_category, seed), "by_value_reversed"),
     by_payment_method |->
         sort_by(into_iter(self.by_payment_method, seed), "by_value_reversed"),
     by_note |-> sort_by(into_iter(self.by_note, seed), "by_value_reversed"),
     average_transaction |-> self.average_transaction,
     transaction_count |-> self.transaction_count]

\* .into_iter().map(|(a, b)| (a, b.into_stats())).collect::<Vec<_>>()
map_into_stats(m, seed) ==
    LET v == into_iter(m, seed)
    IN  [k \in 1..Len(v) |-> <<v[k][1], into_stats(v[k][2], seed)>>]

into_stats_collection(self, seed) ==
    [yearly |-> sort_by(map_into_stats(self.yearly, seed), "by_year"),
     monthly |-> sort_by(map_into_stats(self.monthly, seed), "by_month"),
     last_365_days |-> into_stats(self.last_365_days, seed),
     last_30_days |-> into_stats(self.last_30_days, seed),
     last_7_days |-> into_stats(self.last_7_days, seed)]

\* TempStatsCollection::default()
TempStatsCollectionDefault ==
    [yearly |-> EmptyMap, monthly |-> EmptyMap,
     last_365_days |-> TempStatsDefault,
     last_30_days |-> TempStatsDefault,
     last_7_days |-> TempStatsDefault]

----------------------------------------------------------------------------
(* The inputs of get_stats *)

\* the values of Local::now().date_naive() considered
Todays == { from_ymd_opt(2024, 2, 15), from_ymd_opt(2024, 3, 1) }

\* the transaction dates considered: first and last day of a year, days 8, 7
\* and 0 days before the first of Todays, a day after both of Todays
TxDates ==
    { from_ymd_opt(2023, 1, 1),  from_ymd_opt(2023, 12, 31),
      from_ymd_opt(2024, 1, 10), from_ymd_opt(2024, 2, 7),
      from_ymd_opt(2024, 2, 8),  from_ymd_opt(2024, 2, 15),
      from_ymd_opt(2024, 3, 10) }

\* amounts in minor units
Values == { 100, -50 }

\* <<category field, payment method, note>> of a line of the file
Labels == { <<"Rent", "card", "">>, <<"Food", "cash", "x">>, <<"Rent", "cash", "x">> }

\* the records parse_file builds from such lines (end date = date)
TxSet ==
    { Transaction(v, d, CategoryFrom(l[1]), d, l[2], l[3]) :
        v \in Values, d \in TxDates, l \in Labels }

\* parse_file returns the list sorted by date (line 406); main calls
\* get_stats only when the list is not empty (line 1227)
SortedByDate(s) == \A k \in 1..(Len(s) - 1) : s[k].date <= s[k + 1].date

TxLists ==
    { s \in UNION { [1..n -> TxSet] : n \in 1..MaxTx } : SortedByDate(s) }

----------------------------------------------------------------------------
(* get_stats *)

\* names of the buckets in the histories
YearKey(year) == <<"yearly", year, 0>>
MonthKey(month_idx) == <<"monthly", month_idx[1], month_idx[2]>>
LastKey(n) == <<"last", n, 0>>

\* a window one day too wide
in_last_days_wide(now, date, n) == (now - date) <= n + 1

\* the strict window
in_last_days_strict(now, date, n) == (now - date) < n

\* the window test with ages below 0 left out
in_last_days_past(now, date, n) == (now - date) >= 0 /\ (now - date) <= n

\* (today - transaction.date).num_days() <= n
in_last_days(now, date, n) == (now - date) <= n

\* the yearly day count with the period not clipped at today
yearly_days_to_year_end(k, first, now) ==
    LET year_start   == from_ymd_opt(k, 1, 1)
        period_start == MaxOf(year_start, first)
        period_end   == from_ymd_opt(k + 1, 1, 1) - 1
        days         == days_in_year(year_start)
        days2        == period_end - period_start
    IN  MinOf(days, days2)

\* the day count of the yearly bucket k (lines 448-455)
yearly_days(k, first, now) ==
    LET year_start   == from_ymd_opt(k, 1, 1)
        period_start == MaxOf(year_start, first)
        period_end   == MinOf(from_ymd_opt(k + 1, 1, 1) - 1, now + 1)
        days         == days_in_year(year_start)
        days2        == period_end - period_start
    IN  MinOf(days, days2)

\* the monthly day count with the period ending on the last day of the month
monthly_days_short(k, first, now) ==
    LET month_start  == from_ymd_opt(k[1], k[2], 1)
        month_end    == from_ymd_opt(k[1] + (IF k[2] = 12 THEN 1 ELSE 0),
                                     (k[2] % 12) + 1, 1) - 1
        period_start == MaxOf(month_start, first)
        period_end   == MinOf(month_end, now + 1)
        days         == days_in_month(month_start)
        days2        == period_end - period_start
    IN  MinOf(days, days2)

\* the monthly day count with the period not clipped at the earliest date
monthly_days_whole_month(k, first, now) ==
    LET month_start  == from_ymd_opt(k[1], k[2], 1)
        month_end    == from_ymd_opt(k[1] + (IF k[2] = 12 THEN 1 ELSE 0),
                                     (k[2] % 12) + 1, 1) - 1
        period_start == month_start
        period_end   == MinOf(month_end + 1, now + 1)
        days         == days_in_month(month_start)
        days2        == period_end - period_start
    IN  MinOf(days, days2)

\* the day count of the monthly bucket k = <<year, month>> (lines 459-470)
monthly_days(k, first, now) ==
    LET month_start  == from_ymd_opt(k[1], k[2], 1)
        month_end    == from_ymd_opt(k[1] + (IF k[2] = 12 THEN 1 ELSE 0),
                                     (k[2] % 12) + 1, 1) - 1
        period_start == MaxOf(month_start, first)
        period_end   == MinOf(month_end + 1, now + 1)
        days         == days_in_month(month_start)
        days2        == period_end - period_start
    IN  MinOf(days, days2)

\* if !m.contains_key(k) { m.insert(k, TempStats::default()) };
\* m.get_mut(k).unwrap().update(transaction)
UpdateAt(m, k, transaction) ==
    LET m0 == IF k \in DOMAIN m THEN m ELSE (k :> TempStatsDefault) @@ m
    IN  [m0 EXCEPT ![k] = update(@, transaction)]

Init ==
    /\ transactions \in TxLists
    /\ today \in Todays
    /\ pc = "fold"
    /\ i = 1
    /\ start = today
    /\ tsc = TempStatsCollectionDefault
    /\ stats = <<>>
    /\ calls = {}
    /\ folded = {}
    /\ ret = <<>>

\* the loop iteration with start set to the date of the transaction
Fold_last_start ==
    /\ pc = "fold"
    /\ i <= Len(transactions)
    /\ LET transaction == transactions[i]
           year        == year_as_i32(year_ce(transaction.date))
           month       == month0(transaction.date) + 1
           month_idx   == <<year, month>>
           in7         == in_last_days(today, transaction.date, 7)
           in30        == in_last_days(today, transaction.date, 30)
           in365       == in_last_days(today, transaction.date, 365)
       IN  /\ start' = transaction.date
           /\ tsc' = [tsc EXCEPT
                  !.yearly = UpdateAt(@, year, transaction),
                  !.monthly = UpdateAt(@, month_idx, transaction),
                  !.last_7_days = IF in7 THEN update(@, transaction) ELSE @,
                  !.last_30_days = IF in30 THEN update(@, transaction) ELSE @,
                  !.last_365_days = IF in365 THEN update(@, transaction) ELSE @]
           /\ folded' = folded \cup
                  ( { <<YearKey(year), i>>, <<MonthKey(month_idx), i>> }
                    \cup (IF in7 THEN { <<LastKey(7), i>> } ELSE {})
                    \cup (IF in30 THEN { <<LastKey(30), i>> } ELSE {})
                    \cup (IF in365 THEN { <<LastKey(365), i>> } ELSE {}) )
    /\ i' = i + 1
    /\ pc' = IF i = Len(transactions) THEN "yearly" ELSE "fold"
    /\ UNCHANGED <<ret, transactions, today, stats, calls>>

\* one iteration of the loop over the transactions (lines 416-445)
Fold ==
    /\ pc = "fold"
    /\ i <= Len(transactions)
    /\ LET transaction == transactions[i]
           year        == year_as_i32(year_ce(transaction.date))
           month       == month0(transaction.date) + 1
           month_idx   == <<year, month>>
           in7         == in_last_days(today, transaction.date, 7)
           in30        == in_last_days(today, transaction.date, 30)
           in365       == in_last_days(today, transaction.date, 365)
       IN  /\ start' = MinOf(start, transaction.date)
           /\ tsc' = [tsc EXCEPT
                  !.yearly = UpdateAt(@, year, transaction),
                  !.monthly = UpdateAt(@, month_idx, transaction),
                  !.last_7_days = IF in7 THEN update(@, transaction) ELSE @,
                  !.last_30_days = IF in30 THEN update(@, transaction) ELSE @,
                  !.last_365_days = IF in365 THEN update(@, transaction) ELSE @]
           /\ folded' = folded \cup
                  ( { <<YearKey(year), i>>, <<MonthKey(month_idx), i>> }
                    \cup (IF in7 THEN { <<LastKey(7), i>> } ELSE {})
                    \cup (IF in30 THEN { <<LastKey(30), i>> } ELSE {})
                    \cup (IF in365 THEN { <<LastKey(365), i>> } ELSE {}) )
    /\ i' = i + 1
    /\ pc' = IF i = Len(transactions) THEN "yearly" ELSE "fold"
    /\ UNCHANGED <<ret, transactions, today, stats, calls>>

\* the loop over tsc.yearly (lines 447-456)
FinalizeYearly ==
    /\ pc = "yearly"
    /\ tsc' = [tsc EXCEPT !.yearly =
                  [k \in DOMAIN @ |-> calc_averages(@[k], yearly_days(k, start, today))]]
    /\ calls' = calls \cup
          { <<YearKey(k), yearly_days(k, start, today), tsc.yearly[k].transaction_count>> :
              k \in DOMAIN tsc.yearly }
    /\ pc' = "monthly"
    /\ UNCHANGED <<ret, transactions, today, i, start, stats, folded>>

\* the loop over tsc.monthly (lines 458-471)
FinalizeMonthly ==
    /\ pc = "monthly"
    /\ tsc' = [tsc EXCEPT !.monthly =
                  [k \in DOMAIN @ |-> calc_averages(@[k], monthly_days(k, start, today))]]
    /\ calls' = calls \cup
          { <<MonthKey(k), monthly_days(k, start, today), tsc.monthly[k].transaction_count>> :
              k \in DOMAIN tsc.monthly }
    /\ pc' = "rolling"
    /\ UNCHANGED <<ret, transactions, today, i, start, stats, folded>>

\* the rolling windows finalised with a day count clipped to the data
FinalizeRolling_clipped ==
    /\ pc = "rolling"
    /\ tsc' = [tsc EXCEPT
                  !.last_7_days = calc_averages(@, MinOf(7, today + 1 - start)),
                  !.last_30_days = calc_averages(@, MinOf(30, today + 1 - start)),
                  !.last_365_days = calc_averages(@, MinOf(365, today + 1 - start))]
    /\ calls' = calls \cup
          { <<LastKey(7), MinOf(7, today + 1 - start), tsc.last_7_days.transaction_count>>,
            <<LastKey(30), MinOf(30, today + 1 - start), tsc.last_30_days.transaction_count>>,
            <<LastKey(365), MinOf(365, today + 1 - start), tsc.last_365_days.transaction_count>> }
    /\ pc' = "collect"
    /\ UNCHANGED <<ret, transactions, today, i, start, stats, folded>>

\* lines 474-476
FinalizeRolling ==
    /\ pc = "rolling"
    /\ tsc' = [tsc EXCEPT
                  !.last_7_days = calc_averages(@, 7),
                  !.last_30_days = calc_averages(@, 30),
                  !.last_365_days = calc_averages(@, 365)]
    /\ calls' = calls \cup
          { <<LastKey(7), 7, tsc.last_7_days.transaction_count>>,
            <<LastKey(30), 30, tsc.last_30_days.transaction_count>>,
            <<LastKey(365), 365, tsc.last_365_days.transaction_count>> }
    /\ pc' = "collect"
    /\ UNCHANGED <<ret, transactions, today, i, start, stats, folded>>

\* return tsc.into_stats_collection() (line 478); the hash maps are iterated
\* in the order their hasher yields, here one seed for the whole conversion
IntoStatsCollection ==
    /\ pc = "collect"
    /\ \E seed \in 0..MaxSeed : stats' = into_stats_collection(tsc, seed)
    /\ pc' = "done"
    /\ UNCHANGED <<ret, transactions, today, i, start, tsc, calls, folded>>

Next ==
    \/ Fold
    \/ FinalizeYearly
    \/ FinalizeMonthly
    \/ FinalizeRolling
    \/ IntoStatsCollection

Spec == Init /\ [][Next]_vars

----------------------------------------------------------------------------
(* Vocabulary of the properties *)

RECURSIVE MapSum(_)
MapSum(m) ==
    IF DOMAIN m = {} THEN 0
    ELSE LET k == CHOOSE k \in DOMAIN m : TRUE
         IN  m[k] + MapSum([j \in DOMAIN m \ {k} |-> m[j]])

\* every accumulator of the collection
Accumulators ==
    { tsc.yearly[k] : k \in DOMAIN tsc.yearly }
      \cup { tsc.monthly[k] : k \in DOMAIN tsc.monthly }
      \cup { tsc.last_7_days, tsc.last_30_days, tsc.last_365_days }

IsLeapYear(y) == (y % 4 = 0 /\ y % 100 # 0) \/ y % 400 = 0

CalendarDaysInYear(y) == IF IsLeapYear(y) THEN 366 ELSE 365

CalendarDaysInMonth(y, m) ==
    IF m = 2 THEN (IF IsLeapYear(y) THEN 29 ELSE 28)
    ELSE IF m \in {4, 6, 9, 11} THEN 30 ELSE 31

FirstOfNextMonth(y, m) ==
    IF m = 12 THEN from_ymd_opt(y + 1, 1, 1) ELSE from_ymd_opt(y, m + 1, 1)

\* the earliest date of the whole input
EarliestDate ==
    CHOOSE d \in { transactions[k].date : k \in 1..Len(transactions) } :
        \A k \in 1..Len(transactions) : d <= transactions[k].date

Age(k) == today - transactions[k].date

WindowSizes == {7, 30, 365}

YearlyCalls == { c \in calls : c[1][1] = "yearly" }
MonthlyCalls == { c \in calls : c[1][1] = "monthly" }
RollingCalls == { c \in calls : c[1][1] = "last" }

NonIncreasing(v) == \A k \in 1..(Len(v) - 1) : v[k][2] >= v[k + 1][2]

\* every Stats snapshot of the returned collection
Snapshots ==
    IF stats = <<>> THEN {}
    ELSE { stats.yearly[k][2] : k \in 1..Len(stats.yearly) }
           \cup { stats.monthly[k][2] : k \in 1..Len(stats.monthly) }
           \cup { stats.last_7_days, stats.last_30_days, stats.last_365_days }

----------------------------------------------------------------------------
(* Properties *)

\* C1: in every accumulator (yearly, monthly, rolling), after any number of
\* update calls, the by_category subtotals add up to total exactly
C1_CategorySubtotalsSumToTotal ==
    \A b \in Accumulators : MapSum(b.by_category) = b.total

\* an accumulator that folded the same category twice
C1_Witness ==
    \E b \in Accumulators :
        /\ b.transaction_count >= 2
        /\ Cardinality(DOMAIN b.by_category) = 1
        /\ b.total # 0

\* C2: every yearly bucket Y is finalised with min(days of the year Y, days
\* from max(Jan 1 Y, earliest transaction date) to min(Jan 1 Y+1, today + 1))
C2_YearlyDayCount ==
    \A c \in YearlyCalls :
        LET y == c[1][2]
            D == MinOf(from_ymd_opt(y + 1, 1, 1), today + 1)
                   - MaxOf(from_ymd_opt(y, 1, 1), EarliestDate)
        IN  c[2] = MinOf(CalendarDaysInYear(y), D)

C4_PositiveDayCount ==
    (\A k \in 1..Len(transactions) : transactions[k].date <= today)
        => \A c \in YearlyCalls \cup MonthlyCalls : c[2] >= 1

\* C5: get_stats returns no snapshot when a yearly or monthly day count is
\* zero or negative
C5_NoSnapshotFromNonPositiveDays ==
    pc = "done" => \A c \in YearlyCalls \cup MonthlyCalls : c[2] > 0

\* C6: calc_averages is never called on an accumulator that folded no
\* transaction
C6_NoEmptyBucketFinalised ==
    \A c \in calls : c[3] > 0

\* C7: the rolling window of N days holds no transaction older than N days
C7_WindowExcludesOlder ==
    \A n \in WindowSizes : \A k \in 1..(i - 1) :
        Age(k) > n => <<LastKey(n), k>> \notin folded

\* a transaction older than 365 days has been left out of every window, and
\* one that is 8 days old out of the 7-day window but not of the 30-day one
C7_Witness ==
    /\ \E k \in 1..(i - 1) :
          Age(k) > 365 /\ \A n \in WindowSizes : <<LastKey(n), k>> \notin folded
    /\ \E k \in 1..(i - 1) :
          Age(k) = 8 /\ <<LastKey(7), k>> \notin folded /\ <<LastKey(30), k>> \in folded

\* C8 as written: a transaction is in the window of N days exactly when its
\* age is below N
C8_WindowMembership_Original ==
    \A n \in WindowSizes : \A k \in 1..(i - 1) :
        <<LastKey(n), k>> \in folded <=> Age(k) < n

\* C8 amended: a transaction is in the window of N days exactly when its age
\* is at most N
C8_WindowMembership ==
    \A n \in WindowSizes : \A k \in 1..(i - 1) :
        <<LastKey(n), k>> \in folded <=> Age(k) <= n

\* a transaction exactly 7 days old is in the 7-day window
C8_Witness ==
    \E k \in 1..(i - 1) : Age(k) = 7 /\ <<LastKey(7), k>> \in folded

\* C9: each rolling window of N days is finalised with day count N, and its
\* per_day is its total over N days
C9_RollingDayCount ==
    pc \in {"collect", "done"} =>
        /\ \A n \in WindowSizes : \E c \in RollingCalls : c[1] = LastKey(n)
        /\ \A c \in RollingCalls : c[2] = c[1][2]
        /\ tsc.last_7_days.per_day = Fin(tsc.last_7_days.total, 100 * 7)
        /\ tsc.last_30_days.per_day = Fin(tsc.last_30_days.total, 100 * 30)
        /\ tsc.last_365_days.per_day = Fin(tsc.last_365_days.total, 100 * 365)

\* the windows are finalised although the data starts today, and the 7-day
\* window is not empty
C9_Witness ==
    /\ pc = "collect"
    /\ start = today
    /\ tsc.last_7_days.total # 0

\* C10: in every snapshot returned, by_category, by_payment_method and
\* by_note are ordered by non-increasing subtotal
C10_BreakdownsNonIncreasing ==
    \A st \in Snapshots :
        /\ NonIncreasing(st.by_category)
        /\ NonIncreasing(st.by_payment_method)
        /\ NonIncreasing(st.by_note)

\* a returned snapshot whose three breakdowns have two entries, the second
\* one negative
C10_Witness ==
    \E st \in Snapshots :
        /\ Len(st.by_category) = 2 /\ st.by_category[2][2] < 0
        /\ Len(st.by_payment_method) = 2 /\ st.by_payment_method[2][2] < 0
        /\ Len(st.by_note) = 2 /\ st.by_note[2][2] < 0

StrictlyAscending(keys) == \A k \in 1..(Len(keys) - 1) : keys[k] < keys[k + 1]

\* C11: in the collection returned, yearly is strictly ascending by year and
\* monthly strictly ascending by year * 12 + month, so no key appears twice
C11_BucketsChronological ==
    pc = "done" =>
        /\ StrictlyAscending([k \in 1..Len(stats.yearly) |-> stats.yearly[k][1]])
        /\ StrictlyAscending([k \in 1..Len(stats.monthly) |->
               stats.monthly[k][1][1] * 12 + stats.monthly[k][1][2]])

\* a collection returned with December 2023 before a month of 2024
C11_Witness ==
    /\ pc = "done"
    /\ Len(stats.yearly) = 2
    /\ Len(stats.monthly) = 2
    /\ stats.monthly[1][1] = <<2023, 12>>
    /\ stats.monthly[2][1][1] = 2024

----------------------------------------------------------------------------
(* The date functions called on their own *)

\* the dates the date functions are called with: every day of two years
\* before the common era (the first one a leap year), of 1900, of 2000 and
\* of the MaxCalendarYears years from 2023 on
CalendarYears == {-4, -3, 1900, 2000} \cup 2023..(2022 + MaxCalendarYears)

CalendarDates ==
    UNION { from_ymd_opt(y, 1, 1)..(from_ymd_opt(y + 1, 1, 1) - 1) : y \in CalendarYears }

InitCalendar ==
    /\ transactions = <<>>
    /\ today = from_ymd_opt(2024, 2, 15)
    /\ pc = "call"
    /\ i = 1
    /\ start = today
    /\ tsc = TempStatsCollectionDefault
    /\ stats = <<>>
    /\ calls = {}
    /\ folded = {}
    /\ ret = <<>>

\* a call days_in_month(d)
CallDaysInMonth ==
    /\ pc = "call"
    /\ \E d \in CalendarDates :
          ret' = [fn |-> "days_in_month", d |-> d, value |-> days_in_month(d)]
    /\ pc' = "returned"
    /\ UNCHANGED <<transactions, today, i, start, tsc, stats, calls, folded>>

\* a call days_in_year(d)
CallDaysInYear ==
    /\ pc = "call"
    /\ \E d \in CalendarDates :
          ret' = [fn |-> "days_in_year", d |-> d, value |-> days_in_year(d)]
    /\ pc' = "returned"
    /\ UNCHANGED <<transactions, today, i, start, tsc, stats, calls, folded>>

NextCalendar ==
    \/ CallDaysInMonth
    \/ CallDaysInYear

SpecCalendar == InitCalendar /\ [][NextCalendar]_vars

\* C12: days_in_month(d) is the number of calendar days of the month of d,
\* for every date d: 29 or 28 for February, 31 for December
C12_DaysInMonth ==
    (pc = "returned" /\ ret.fn = "days_in_month") =>
        ret.value = CalendarDaysInMonth(civil(ret.d)[1], civil(ret.d)[2])

\* C17: days_in_year(d) is the number of calendar days of the year of d, for
\* every date d of any month
C17_DaysInYear ==
    (pc = "returned" /\ ret.fn = "days_in_year") =>
        ret.value = CalendarDaysInYear(civil(ret.d)[1])

----------------------------------------------------------------------------
(* get_stats called twice *)

\* the inputs of the two calls: lists of up to MaxTx transactions of two dates
TwiceDates == { from_ymd_opt(2024, 2, 8), from_ymd_opt(2024, 2, 15) }

TxSetTwice == { t \in TxSet : t.date \in TwiceDates }

TxListsTwice ==
    { s \in UNION { [1..n -> TxSetTwice] : n \in 1..MaxTx } : SortedByDate(s) }

\* the lists with the elements of s in any order
PermutationsOf(s) ==
    { [k \in 1..Len(s) |-> s[p[k]]] :
        p \in { q \in [1..Len(s) -> 1..Len(s)] : \A a, b \in 1..Len(s) : q[a] = q[b] => a = b } }

InitTwice ==
    /\ transactions \in TxListsTwice
    /\ today \in Todays
    /\ pc = "fold"
    /\ i = 1
    /\ start = today
    /\ tsc = TempStatsCollectionDefault
    /\ stats = <<>>
    /\ calls = {}
    /\ folded = {}
    /\ ret = <<>>

\* get_stats is called again on the same day with the same transactions, in
\* the same or in another order; what the first call computed is kept in ret
Again ==
    /\ pc = "done"
    /\ ret = <<>>
    /\ ret' = [transactions |-> transactions, stats |-> stats, tsc |-> tsc, calls |-> calls]
    /\ transactions' \in PermutationsOf(transactions)
    /\ pc' = "fold"
    /\ i' = 1
    /\ start' = today
    /\ tsc' = TempStatsCollectionDefault
    /\ stats' = <<>>
    /\ calls' = {}
    /\ folded' = {}
    /\ UNCHANGED today

NextTwice ==
    \/ Next
    \/ Again

SpecTwice == InitTwice /\ [][NextTwice]_vars

SecondCall == ret # <<>>

\* C13: two calls of get_stats with the same list and the same today return
\* identical collections, the order inside every breakdown included
C13_SameOutputTwice ==
    (SecondCall /\ pc = "done" /\ transactions = ret.transactions) => stats = ret.stats

\* C14: a call on a permutation of the list builds the same buckets with the
\* same totals, counts, per-key subtotals and day counts
C14_OrderIndependent ==
    (SecondCall /\ pc \in {"collect", "done"}) =>
        /\ tsc = ret.tsc
        /\ calls = ret.calls

\* the second call has folded and finalised the list in another order: the
\* later date first, both transactions of one category
C14_Witness ==
    /\ SecondCall
    /\ pc = "collect"
    /\ Len(transactions) = 2
    /\ transactions[1].date > transactions[2].date
    /\ transactions[1].category = transactions[2].category
    /\ transactions[1].value # transactions[2].value

----------------------------------------------------------------------------
(* The example of the specification *)

\* {100 on 2024-01-10, Food}, {250 on 2024-01-20, Food}, {500 on 2024-02-01, Rent}
ExampleList ==
    << Transaction(100, from_ymd_opt(2024, 1, 10), CategoryFrom("Food"),
                   from_ymd_opt(2024, 1, 10), "card", ""),
       Transaction(250, from_ymd_opt(2024, 1, 20), CategoryFrom("Food"),
                   from_ymd_opt(2024, 1, 20), "card", ""),
       Transaction(500, from_ymd_opt(2024, 2, 1), CategoryFrom("Rent"),
                   from_ymd_opt(2024, 2, 1), "card", "") >>

ExampleToday == from_ymd_opt(2024, 2, 15)

\* the example and its prefixes, on every day of February 2024
InitExample ==
    /\ transactions \in { SubSeq(ExampleList, 1, n) : n \in 1..Len(ExampleList) }
    /\ today \in from_ymd_opt(2024, 2, 1)..from_ymd_opt(2024, 2, 29)
    /\ pc = "fold"
    /\ i = 1
    /\ start = today
    /\ tsc = TempStatsCollectionDefault
    /\ stats = <<>>
    /\ calls = {}
    /\ folded = {}
    /\ ret = <<>>

SpecExample == InitExample /\ [][Next]_vars

\* the example has been folded and its monthly buckets finalised
ExampleFinalised ==
    /\ transactions = ExampleList
    /\ today = ExampleToday
    /\ pc \in {"rolling", "collect", "done"}

DaysOf(key) == { c[2] : c \in { x \in calls : x[1] = key } }

ExampleTotals ==
    /\ DOMAIN tsc.monthly = { <<2024, 1>>, <<2024, 2>> }
    /\ tsc.monthly[<<2024, 1>>].total = 350
    /\ DOMAIN tsc.monthly[<<2024, 1>>].by_category = { CategoryFrom("Food") }
    /\ tsc.monthly[<<2024, 1>>].by_category[CategoryFrom("Food")] = 350
    /\ tsc.monthly[<<2024, 2>>].total = 500
    /\ DaysOf(MonthKey(<<2024, 2>>)) = {15}

\* C15 as written: in the example, January 2024 has total 350, the single
\* category entry Food = 350 and 31 days; February 2024 total 500 and 15 days
C15_Example_Original ==
    ExampleFinalised => (ExampleTotals /\ DaysOf(MonthKey(<<2024, 1>>)) = {31})

\* C15 amended: the same with 22 days for January 2024 (10 to 31 January)
C15_Example ==
    ExampleFinalised => (ExampleTotals /\ DaysOf(MonthKey(<<2024, 1>>)) = {22})

\* the example has been run to its end
C15_Witness ==
    /\ transactions = ExampleList
    /\ today = ExampleToday
    /\ pc = "done"
    /\ Len(stats.monthly) = 2

----------------------------------------------------------------------------
(* Properties of the day counts, of update and of start *)

SnapshotsByKey ==
    IF stats = <<>> THEN {}
    ELSE { <<YearKey(stats.yearly[k][1]), stats.yearly[k][2]>> : k \in 1..Len(stats.yearly) }
           \cup { <<MonthKey(stats.monthly[k][1]), stats.monthly[k][2]>> :
                    k \in 1..Len(stats.monthly) }
           \cup { <<LastKey(7), stats.last_7_days>>, <<LastKey(30), stats.last_30_days>>,
                  <<LastKey(365), stats.last_365_days>> }

\* the index of the transaction whose update inserted the key into the
\* breakdown of the bucket
FirstInsert(bucket, field, key) ==
    LET idx == { k \in 1..Len(transactions) :
                   <<bucket, k>> \in folded /\ transactions[k][field] = key }
    IN  CHOOSE k \in idx : \A j \in idx : k <= j

TiesInInsertionOrder(bucket, field, v) ==
    \A k \in 1..(Len(v) - 1) :
        v[k][2] = v[k + 1][2] =>
            FirstInsert(bucket, field, v[k][1]) < FirstInsert(bucket, field, v[k + 1][1])

\* C18: entries of a breakdown with equal subtotals are listed in the order
\* in which update first inserted their keys
C18_TiesInInsertionOrder ==
    \A s \in SnapshotsByKey :
        /\ TiesInInsertionOrder(s[1], "category", s[2].by_category)
        /\ TiesInInsertionOrder(s[1], "payment_method", s[2].by_payment_method)
        /\ TiesInInsertionOrder(s[1], "note", s[2].by_note)

EntryAdded(m, n, k, v) ==
    /\ DOMAIN n = DOMAIN m \cup {k}
    /\ n[k] = (IF k \in DOMAIN m THEN m[k] ELSE 0) + v
    /\ \A j \in DOMAIN m \ {k} : n[j] = m[j]

UpdatedBy(old, new, t) ==
    /\ new.total = old.total + t.value
    /\ new.transaction_count = old.transaction_count + 1
    /\ new.per_day = old.per_day
    /\ new.average_transaction = old.average_transaction
    /\ EntryAdded(old.by_category, new.by_category, t.category, t.value)
    /\ EntryAdded(old.by_payment_method, new.by_payment_method, t.payment_method, t.value)
    /\ EntryAdded(old.by_note, new.by_note, t.note, t.value)

\* C19: an update of an accumulator by a transaction t leaves the list and
\* every accumulator it is not called on unchanged, and changes in its
\* receiver only total and the entries of t's category, payment method and
\* note, each by t.value (from 0 when new), and transaction_count by 1
C19_UpdateFrame ==
    [][ pc = "fold" =>
          LET t == transactions[i]
              Frame(bucket, old, new) ==
                  IF <<bucket, i>> \in folded' THEN UpdatedBy(old, new, t) ELSE new = old
          IN  /\ transactions' = transactions
              /\ DOMAIN tsc.yearly \subseteq DOMAIN tsc'.yearly
              /\ DOMAIN tsc.monthly \subseteq DOMAIN tsc'.monthly
              /\ \A k \in DOMAIN tsc'.yearly :
                    Frame(YearKey(k),
                          IF k \in DOMAIN tsc.yearly THEN tsc.yearly[k] ELSE TempStatsDefault,
                          tsc'.yearly[k])
              /\ \A k \in DOMAIN tsc'.monthly :
                    Frame(MonthKey(k),
                          IF k \in DOMAIN tsc.monthly THEN tsc.monthly[k] ELSE TempStatsDefault,
                          tsc'.monthly[k])
              /\ Frame(LastKey(7), tsc.last_7_days, tsc'.last_7_days)
              /\ Frame(LastKey(30), tsc.last_30_days, tsc'.last_30_days)
              /\ Frame(LastKey(365), tsc.last_365_days, tsc'.last_365_days)
      ]_vars

\* an accumulator updated twice holds two entries per breakdown while
\* another one was updated once only
C19_Witness ==
    /\ \E b \in Accumulators :
          /\ b.transaction_count = 2
          /\ Cardinality(DOMAIN b.by_category) = 2
          /\ Cardinality(DOMAIN b.by_payment_method) = 2
          /\ Cardinality(DOMAIN b.by_note) = 2
    /\ \E b \in Accumulators : b.transaction_count = 1
    /\ tsc.last_7_days.transaction_count = 0

EarlierOf(a, b) == IF a <= b THEN a ELSE b

----------------------------------------------------------------------------
(* Transactions dated after today *)

\* C23: a transaction dated after today is folded into the last-7, last-30
\* and last-365 accumulators
C23_FutureInEveryWindow ==
    \A k \in 1..Len(transactions) :
        (Age(k) < 0 /\ (pc # "fold" \/ k < i)) =>
            \A n \in WindowSizes : <<LastKey(n), k>> \in folded

\* a list of a past and a future transaction has been processed, and each
\* returned window counts the future one
C23_Witness ==
    /\ pc = "done"
    /\ Len(transactions) = 2
    /\ Age(1) > 365
    /\ Age(2) < 0
    /\ stats.last_7_days.transaction_count = 1
    /\ stats.last_30_days.transaction_count = 1
    /\ stats.last_365_days.transaction_count = 1

----------------------------------------------------------------------------
(* parse_file *)

\* A str is the sequence of its characters, each a string of length 1.

Whitespace == { " ", "\t" }

\* str::trim_start
trim_start(s) ==
    LET kept == { k \in 1..Len(s) : s[k] \notin Whitespace }
    IN  IF kept = {} THEN <<>>
        ELSE SubSeq(s, CHOOSE k \in kept : \A j \in kept : k <= j, Len(s))

\* str::trim_end
trim_end(s) ==
    LET kept == { k \in 1..Len(s) : s[k] \notin Whitespace }
    IN  IF kept = {} THEN <<>>
        ELSE SubSeq(s, 1, CHOOSE k \in kept : \A j \in kept : k >= j)

\* str::trim
trim(s) == trim_end(trim_start(s))

\* str::split(sep).collect(): the pieces of s between the separators, piece
\* n lying between the separators number n - 1 and n
split(s, sep) ==
    LET hits   == { k \in 1..Len(s) : s[k] = sep }
        nth(n) == IF n = 0 THEN 0
                  ELSE IF n > Cardinality(hits) THEN Len(s) + 1
                  ELSE CHOOSE p \in hits : Cardinality({ q \in hits : q < p }) = n - 1
    IN  [n \in 1..(Cardinality(hits) + 1) |-> SubSeq(s, nth(n - 1) + 1, nth(n) - 1)]

\* str::starts_with(char)
starts_with(s, c) == s # <<>> /\ s[1] = c

\* the first n characters as one string
RECURSIVE StringUpTo(_, _)
StringUpTo(s, n) == IF n = 0 THEN "" ELSE StringUpTo(s, n - 1) \o s[n]

\* String::from(s): the characters as one string
StringFrom(s) == StringUpTo(s, Len(s))

DigitChars == << "0", "1", "2", "3", "4", "5", "6", "7", "8", "9" >>

IsDigit(c) == \E d \in 1..Len(DigitChars) : DigitChars[d] = c

Digit(c) == (CHOOSE d \in 1..Len(DigitChars) : DigitChars[d] = c) - 1

AllDigits(s) == s # <<>> /\ \A k \in 1..Len(s) : IsDigit(s[k])

\* the number written by the first n of a sequence of digits
RECURSIVE NumberUpTo(_, _)
NumberUpTo(s, n) == IF n = 0 THEN 0 ELSE NumberUpTo(s, n - 1) * 10 + Digit(s[n])

\* the number written by a sequence of digits
NumberOf(s) == NumberUpTo(s, Len(s))

\* str::parse::<u32>(): an optional + and digits (the fields considered
\* have few digits, the width of u32 is not reached)
parse_u32(s) ==
    LET body == IF starts_with(s, "+") THEN Tail(s) ELSE s
    IN  IF AllDigits(body)
        THEN <<"Ok", NumberOf(body)>> ELSE <<"Err", 0>>

\* str::parse::<i32>(): an optional sign and digits (few digits, as above)
parse_i32(s) ==
    LET signed == starts_with(s, "+") \/ starts_with(s, "-")
        body   == IF signed THEN Tail(s) ELSE s
        n      == IF starts_with(s, "-") THEN -NumberOf(body) ELSE NumberOf(body)
    IN  IF AllDigits(body)
        THEN <<"Ok", n>> ELSE <<"Err", 0>>

\* NaiveDate::parse_from_str(s, "%d/%m/%Y") on day/month/year written with
\* digits only (the year with an optional sign, four digits at most without
\* one); everything else is taken as an error
parse_from_str(s) ==
    LET parts == split(s, "/")
    IN  IF Len(parts) # 3 THEN <<"Err", 0>>
        ELSE LET ds  == parts[1]
                 ms  == parts[2]
                 ys  == parts[3]
                 sgn == starts_with(ys, "+") \/ starts_with(ys, "-")
                 yb  == IF sgn THEN Tail(ys) ELSE ys
             IN  IF ~ ( /\ AllDigits(ds) /\ Len(ds) <= 2
                        /\ AllDigits(ms) /\ Len(ms) <= 2
                        /\ AllDigits(yb) /\ (sgn \/ Len(yb) <= 4) )
                 THEN <<"Err", 0>>
                 ELSE LET d == NumberOf(ds)
                          m == NumberOf(ms)
                          y == IF starts_with(ys, "-") THEN -NumberOf(yb) ELSE NumberOf(yb)
                      IN  IF m \in 1..12 /\ d >= 1
                             /\ civil(from_ymd_opt(y, m, d)) = <<y, m, d>>
                          THEN <<"Ok", from_ymd_opt(y, m, d)>>
                          ELSE <<"Err", 0>>

\* Transaction::default(): NaiveDate::default() is 1970-01-01
TransactionDefault ==
    Transaction(0, 0, Cat("Unknown"), 0, "", "")

\* field 0 of a line (lines 328-354): <<"Ok", value>>, <<"panic", 0>> where
\* an unwrap fails, <<"exit", 0>> on exit(1)
parse_amount(field) ==
    LET negative == starts_with(trim(field), "-")
        parts    == split(field, ".")
        units    == parse_i32(trim(parts[1]))
        parsed   == IF Len(parts) >= 2 THEN parse_u32(trim(parts[2]))
                    ELSE parse_u32(<<"0">>)
        cents    == IF parsed[1] = "Ok" THEN parsed[2] ELSE 0
    IN  IF units[1] # "Ok" THEN <<"panic", 0>>
        ELSE IF cents >= 100 THEN <<"exit", 0>>
        ELSE LET cents2 == (IF units[2] < 0 \/ negative THEN -cents ELSE cents)
                             * (IF cents < 10 THEN 10 ELSE 1)
             IN  <<"Ok", units[2] * 100 + cents2>>

\* one line of the file (lines 324-403): the fields are handled in their
\* order, a field that is missing leaves the default, and the first field
\* that fails ends the process; <<"Ok", transaction>> or the way it ends
parse_line(line) ==
    LET fields   == split(line, ";")
        amount   == parse_amount(fields[1])
        date     == IF Len(fields) >= 2 THEN parse_from_str(trim(fields[2]))
                    ELSE <<"Ok", TransactionDefault.date>>
        category == IF Len(fields) >= 3 THEN CategoryFrom(StringFrom(trim(fields[3])))
                    ELSE TransactionDefault.category
        end_date == IF Len(fields) >= 4 THEN parse_from_str(trim(fields[4]))
                    ELSE <<"Ok", TransactionDefault.end_date>>
        payment  == IF Len(fields) >= 5 THEN StringFrom(trim(fields[5]))
                    ELSE TransactionDefault.payment_method
        note     == IF Len(fields) >= 6 THEN StringFrom(trim(fields[6]))
                    ELSE TransactionDefault.note
    IN  IF amount[1] # "Ok" THEN <<amount[1], TransactionDefault>>
        ELSE IF date[1] # "Ok" \/ end_date[1] # "Ok" THEN <<"exit", TransactionDefault>>
        ELSE IF date[2] > end_date[2] THEN <<"exit", TransactionDefault>>
        ELSE <<"Ok", Transaction(amount[2], date[2], category, end_date[2], payment, note)>>

----------------------------------------------------------------------------
(* main: parse_file, then get_stats *)

\* the header line of a file
HeaderLine == << "h" >>

\* the lines the files are made of: amounts with two, one and no digits of
\* cents, negative amounts, dates of 2023 and 2024, of the years 1 BCE, 2 BCE
\* and 1 CE, category fields naming a variant, free ones, an empty and a
\* padded one, and four lines that end the process
ParseLines ==
    {
      \* 3.05;10/01/2024;Food;10/01/2024;card;x
      << "3", ".", "0", "5", ";", "1", "0", "/", "0", "1", "/", "2", "0",
         "2", "4", ";", "F", "o", "o", "d", ";", "1", "0", "/", "0", "1",
         "/", "2", "0", "2", "4", ";", "c", "a", "r", "d", ";", "x" >>,
      \* -3.05;20/01/2024; Food ;20/01/2024;cash;
      << "-", "3", ".", "0", "5", ";", "2", "0", "/", "0", "1", "/", "2",
         "0", "2", "4", ";", " ", "F", "o", "o", "d", " ", ";", "2", "0",
         "/", "0", "1", "/", "2", "0", "2", "4", ";", "c", "a", "s", "h",
         ";" >>,
      \* 0.50;01/02/2024;Rent;01/02/2024;card;x
      << "0", ".", "5", "0", ";", "0", "1", "/", "0", "2", "/", "2", "0",
         "2", "4", ";", "R", "e", "n", "t", ";", "0", "1", "/", "0", "2",
         "/", "2", "0", "2", "4", ";", "c", "a", "r", "d", ";", "x" >>,
      \* -0.99;01/02/2024;;01/02/2024;card;x
      << "-", "0", ".", "9", "9", ";", "0", "1", "/", "0", "2", "/", "2",
         "0", "2", "4", ";", ";", "0", "1", "/", "0", "2", "/", "2", "0",
         "2", "4", ";", "c", "a", "r", "d", ";", "x" >>,
      \* 3.5;31/12/2023;Miscellaneous;31/12/2023;cash;y
      << "3", ".", "5", ";", "3", "1", "/", "1", "2", "/", "2", "0", "2",
         "3", ";", "M", "i", "s", "c", "e", "l", "l", "a", "n", "e", "o",
         "u", "s", ";", "3", "1", "/", "1", "2", "/", "2", "0", "2", "3",
         ";", "c", "a", "s", "h", ";", "y" >>,
      \* 12;01/06/0000;Miscellaneous (Food);01/06/0000;card;x
      << "1", "2", ";", "0", "1", "/", "0", "6", "/", "0", "0", "0", "0",
         ";", "M", "i", "s", "c", "e", "l", "l", "a", "n", "e", "o", "u",
         "s", " ", "(", "F", "o", "o", "d", ")", ";", "0", "1", "/", "0",
         "6", "/", "0", "0", "0", "0", ";", "c", "a", "r", "d", ";", "x" >>,
      \* 7.10;01/06/-0001;Unknown;01/06/-0001;card;x
      << "7", ".", "1", "0", ";", "0", "1", "/", "0", "6", "/", "-", "0",
         "0", "0", "1", ";", "U", "n", "k", "n", "o", "w", "n", ";", "0",
         "1", "/", "0", "6", "/", "-", "0", "0", "0", "1", ";", "c", "a",
         "r", "d", ";", "x" >>,
      \* 1.00;01/06/0001;Rent;01/06/0001;cash;x
      << "1", ".", "0", "0", ";", "0", "1", "/", "0", "6", "/", "0", "0",
         "0", "1", ";", "R", "e", "n", "t", ";", "0", "1", "/", "0", "6",
         "/", "0", "0", "0", "1", ";", "c", "a", "s", "h", ";", "x" >>,
      \* 1.100;10/01/2024;Food;10/01/2024;card;x
      << "1", ".", "1", "0", "0", ";", "1", "0", "/", "0", "1", "/", "2",
         "0", "2", "4", ";", "F", "o", "o", "d", ";", "1", "0", "/", "0",
         "1", "/", "2", "0", "2", "4", ";", "c", "a", "r", "d", ";", "x" >>,
      \* x;10/01/2024;Food;10/01/2024;card;x
      << "x", ";", "1", "0", "/", "0", "1", "/", "2", "0", "2", "4", ";",
         "F", "o", "o", "d", ";", "1", "0", "/", "0", "1", "/", "2", "0",
         "2", "4", ";", "c", "a", "r", "d", ";", "x" >>,
      \* 2.00;20/01/2024;Food;10/01/2024;card;x
      << "2", ".", "0", "0", ";", "2", "0", "/", "0", "1", "/", "2", "0",
         "2", "4", ";", "F", "o", "o", "d", ";", "1", "0", "/", "0", "1",
         "/", "2", "0", "2", "4", ";", "c", "a", "r", "d", ";", "x" >>,
      \* 2.00;2024-01-20;Food;2024-01-20;card;x
      << "2", ".", "0", "0", ";", "2", "0", "2", "4", "-", "0", "1", "-",
         "2", "0", ";", "F", "o", "o", "d", ";", "2", "0", "2", "4", "-",
         "0", "1", "-", "2", "0", ";", "c", "a", "r", "d", ";", "x" >>
    }

\* the files: the header and up to MaxLines lines
Files ==
    { <<HeaderLine>> \o s : s \in UNION { [1..n -> ParseLines] : n \in 1..MaxLines } }

\* main has found the file; parse_file is about to read its lines
InitParse ==
    /\ transactions = <<>>
    /\ today = from_ymd_opt(2024, 2, 15)
    /\ pc = "parse"
    /\ i = 1
    /\ start = today
    /\ tsc = TempStatsCollectionDefault
    /\ stats = <<>>
    /\ calls = {}
    /\ folded = {}
    /\ \E content \in Files :
          ret = [fn |-> "parse_file", content |-> content, pushed |-> <<>>]

\* one iteration of the loop over the lines (lines 323-404), the header
\* skipped: the transaction of the line is pushed, or the process ends
ParseLine ==
    /\ pc = "parse"
    /\ i < Len(ret.content)
    /\ \E r \in { parse_line(ret.content[i + 1]) } :
          IF r[1] = "Ok"
          THEN /\ transactions' = Append(transactions, r[2])
               /\ i' = i + 1
               /\ pc' = "parse"
          ELSE /\ pc' = "exit"
               /\ UNCHANGED <<transactions, i>>
    /\ UNCHANGED <<ret, today, start, tsc, stats, calls, folded>>

\* the sort and the return of parse_file (lines 406-408), and main's call of
\* get_stats on a list that is not empty (lines 1225-1232)
SortAndReturn ==
    /\ pc = "parse"
    /\ i = Len(ret.content)
    /\ ret' = [ret EXCEPT !.pushed = transactions]
    /\ transactions' = sort_by(transactions, "by_date")
    /\ i' = 1
    /\ pc' = IF transactions # <<>> THEN "fold" ELSE "exit"
    /\ UNCHANGED <<today, start, tsc, stats, calls, folded>>

NextParse ==
    \/ ParseLine
    \/ SortAndReturn
    \/ Next

SpecParse == InitParse /\ [][NextParse]_vars

\* parse_file has returned its list to main
ParsedOk == ret # <<>> /\ pc \notin {"parse", "exit"}

\* the field number n, counted from 1 and trimmed, of the line that was
\* pushed as number j
FieldOf(j, n) == trim(split(ret.content[j + 1], ";")[n])

\* the number, before the sort, of the transaction that is number k after it
SourceLine(k) ==
    LET tagged == [j \in 1..Len(ret.pushed) |-> [date |-> ret.pushed[j].date, line |-> j]]
    IN  sort_by(tagged, "by_date")[k].line

\* C21: two transactions folded into the same bucket are accumulated under
\* the same by_category key if and only if the trimmed category fields of
\* their lines are equal
C21_CategoryKeysVerbatim ==
    ParsedOk =>
        \A b \in { f[1] : f \in folded } :
            \A j, k \in { f[2] : f \in { g \in folded : g[1] = b } } :
                (transactions[j].category = transactions[k].category)
                    <=> (FieldOf(SourceLine(j), 3) = FieldOf(SourceLine(k), 3))

\* an amount written as an optional minus, units, a dot and two digits
TwoDigitCents(f) ==
    LET body  == IF starts_with(f, "-") THEN Tail(f) ELSE f
        parts == split(body, ".")
    IN  /\ Len(parts) = 2
        /\ AllDigits(parts[1])
        /\ AllDigits(parts[2])
        /\ Len(parts[2]) = 2

\* what such an amount denotes in minor units
WrittenValue(f) ==
    LET body  == IF starts_with(f, "-") THEN Tail(f) ELSE f
        parts == split(body, ".")
        n     == NumberOf(parts[1]) * 100 + NumberOf(parts[2])
    IN  IF starts_with(f, "-") THEN -n ELSE n

\* C24: an amount written as units, a dot and two digits CC, with or without
\* a leading minus, is parsed to units * 100 + CC with the sign applied to
\* the whole
C24_WrittenCents ==
    ParsedOk =>
        \A j \in 1..Len(ret.pushed) :
            TwoDigitCents(FieldOf(j, 1)) =>
                ret.pushed[j].value = WrittenValue(FieldOf(j, 1))

\* the year of a date as a signed number: n for the year n of the common
\* era, -n for the year n before it
SignedYear(date) ==
    LET y == civil(date)[1]
    IN  IF y >= 1 THEN y ELSE y - 1

\* the buckets of one granularity a transaction was folded into
BucketsOf(k, granularity) ==
    { f[1] : f \in { g \in folded : g[2] = k /\ g[1][1] = granularity } }

RECURSIVE SumOfValues(_)
SumOfValues(s) == IF s = <<>> THEN 0 ELSE s[1].value + SumOfValues(Tail(s))

TotalsOf(m) == [k \in DOMAIN m |-> m[k].total]

CountsOf(m) == [k \in DOMAIN m |-> m[k].transaction_count]

\* C22: after the pass every transaction has been folded into exactly one
\* yearly bucket, that of the year of its date, and exactly one monthly
\* bucket, that of the year and month of its date; the yearly totals, the
\* monthly totals and the transaction values have the same sum, and the
\* yearly and the monthly counts both add up to the length of the list
C22_BucketsPartition ==
    (ParsedOk /\ pc \in {"yearly", "monthly", "rolling", "collect", "done"}) =>
        /\ \A k \in 1..Len(transactions) :
              /\ BucketsOf(k, "yearly") = { YearKey(SignedYear(transactions[k].date)) }
              /\ BucketsOf(k, "monthly") =
                    { MonthKey(<<SignedYear(transactions[k].date),
                                 civil(transactions[k].date)[2]>>) }
        /\ \A j, k \in 1..Len(transactions) :
              /\ (BucketsOf(j, "yearly") = BucketsOf(k, "yearly"))
                    <=> (civil(transactions[j].date)[1] = civil(transactions[k].date)[1])
              /\ (BucketsOf(j, "monthly") = BucketsOf(k, "monthly"))
                    <=> ( /\ civil(transactions[j].date)[1] = civil(transactions[k].date)[1]
                          /\ civil(transactions[j].date)[2] = civil(transactions[k].date)[2] )
        /\ MapSum(TotalsOf(tsc.yearly)) = SumOfValues(transactions)
        /\ MapSum(TotalsOf(tsc.monthly)) = SumOfValues(transactions)
        /\ MapSum(CountsOf(tsc.yearly)) = Len(transactions)
        /\ MapSum(CountsOf(tsc.monthly)) = Len(transactions)

\* two transactions of June of the years 1 BCE and 1 CE have been returned
\* in two yearly and two monthly buckets of one transaction each
C22_Witness ==
    /\ ParsedOk
    /\ pc = "done"
    /\ Len(transactions) = 2
    /\ civil(transactions[1].date)[1] = 0
    /\ civil(transactions[2].date)[1] = 1
    /\ Len(stats.yearly) = 2
    /\ Len(stats.monthly) = 2
    /\ stats.yearly[1][2].transaction_count = 1
    /\ stats.monthly[2][2].transaction_count = 1

====
